---- MODULE Spec2Model ----
(***************************************************************************)
(* Model of public/assets/images/fix_padding.py: the script that loads the  *)
(* sprite atlas collectables.json, adds OFFSET to frame.x and frame.y of    *)
(* every frame entry, writes collectables_padded.json and prints one line.  *)
(***************************************************************************)
EXTENDS Integers, Sequences, FiniteSets, TLC

\* fix_padding.py:3
OFFSET == 2
\* fix_padding.py:5
IN_PATH == "collectables.json"
\* Mutant of OUT_PATH: the result is written over the source file.
IN_PLACE_PATH == "collectables.json"
\* fix_padding.py:13
OUT_PATH == "collectables_padded.json"
\* fix_padding.py:16
MESSAGE == "JSON corrigido (padding apenas nas bordas)"

\* Bounds of the model.
MaxFrames == 2
MaxRuns == 2

(***************************************************************************)
(* Python values as json.load builds them.  A dict is a sequence of        *)
(* <<key, value>> pairs in insertion order; a list is a sequence.          *)
(***************************************************************************)
Num(n) == [t |-> "num", v |-> n]
Bool(b) == [t |-> "bool", v |-> b]
Str(s) == [t |-> "str", v |-> s]
Null == [t |-> "null", v |-> 0]
Arr(items) == [t |-> "arr", v |-> items]
Obj(pairs) == [t |-> "obj", v |-> pairs]

HasKey(pairs, k) == \E i \in 1..Len(pairs) : pairs[i][1] = k
GetKey(pairs, k) == pairs[CHOOSE i \in 1..Len(pairs) : pairs[i][1] = k][2]

\* d[k] = v on a dict: an existing key keeps its position, a new key is
\* appended.
DictSet(pairs, k, v) ==
    IF HasKey(pairs, k)
    THEN [i \in 1..Len(pairs) |-> IF pairs[i][1] = k THEN <<k, v>> ELSE pairs[i]]
    ELSE Append(pairs, <<k, v>>)

\* Mutant of Subscript: a missing key reads as 0, as obj.get(k, 0) would.
SubscriptOrZero(val, k) ==
    IF val.t = "obj"
    THEN [err |-> "none",
          val |-> IF HasKey(val.v, k) THEN GetKey(val.v, k) ELSE Num(0)]
    ELSE [err |-> "TypeError", val |-> Null]

\* obj[k] with a string key k, as lines 8, 9, 10 and 11 evaluate it.
Subscript(val, k) ==
    IF val.t = "obj"
    THEN IF HasKey(val.v, k)
         THEN [err |-> "none", val |-> GetKey(val.v, k)]
         ELSE [err |-> "KeyError", val |-> Null]
    ELSE [err |-> "TypeError", val |-> Null]

\* obj.values() of line 8: only a dict has the method.
Values(val) ==
    IF val.t = "obj"
    THEN [err |-> "none", val |-> [i \in 1..Len(val.v) |-> val.v[i][2]]]
    ELSE [err |-> "AttributeError", val |-> <<>>]

\* Mutant of IAdd: the offset is off by one.
IAddOne(val) ==
    CASE val.t = "num" -> [err |-> "none", val |-> Num(val.v + OFFSET - 1)]
      [] val.t = "bool" -> [err |-> "none",
                            val |-> Num((IF val.v THEN 1 ELSE 0) + OFFSET - 1)]
      [] OTHER -> [err |-> "TypeError", val |-> Null]

\* Mutant of IAdd: a value that is not a number is skipped instead of
\* raising.
IAddLenient(val) ==
    CASE val.t = "num" -> [err |-> "none", val |-> Num(val.v + OFFSET)]
      [] val.t = "bool" -> [err |-> "none",
                            val |-> Num((IF val.v THEN 1 ELSE 0) + OFFSET)]
      [] OTHER -> [err |-> "none", val |-> val]

\* val += OFFSET of lines 10 and 11.  bool is a subclass of int in Python,
\* so True + 2 is the int 3; str, None, list and dict raise TypeError.
IAdd(val) ==
    CASE val.t = "num" -> [err |-> "none", val |-> Num(val.v + OFFSET)]
      [] val.t = "bool" -> [err |-> "none",
                            val |-> Num((IF val.v THEN 1 ELSE 0) + OFFSET)]
      [] OTHER -> [err |-> "TypeError", val |-> Null]

(***************************************************************************)
(* json.dump and json.load.  A file holds a sequence of JSON tokens        *)
(* (white space, which indent=2 adds, carries no value and is left out).   *)
(***************************************************************************)
Tok(k, s, n) == [k |-> k, s |-> s, n |-> n]
P(s) == Tok("punct", s, 0)

RECURSIVE Dump(_)
RECURSIVE DumpItems(_, _)
RECURSIVE DumpMembers(_, _)
Dump(val) ==
    CASE val.t = "num" -> <<Tok("num", "", val.v)>>
      [] val.t = "bool" -> <<Tok("lit", IF val.v THEN "true" ELSE "false", 0)>>
      [] val.t = "null" -> <<Tok("lit", "null", 0)>>
      [] val.t = "str" -> <<Tok("str", val.v, 0)>>
      [] val.t = "arr" -> <<P("[")>> \o DumpItems(val.v, 1) \o <<P("]")>>
      [] val.t = "obj" -> <<P("{")>> \o DumpMembers(val.v, 1) \o <<P("}")>>
DumpItems(items, i) ==
    IF i > Len(items) THEN <<>>
    ELSE (IF i > 1 THEN <<P(",")>> ELSE <<>>)
         \o Dump(items[i]) \o DumpItems(items, i + 1)
DumpMembers(pairs, i) ==
    IF i > Len(pairs) THEN <<>>
    ELSE (IF i > 1 THEN <<P(",")>> ELSE <<>>)
         \o <<Tok("str", pairs[i][1], 0), P(":")>>
         \o Dump(pairs[i][2]) \o DumpMembers(pairs, i + 1)

Bad == [ok |-> FALSE, val |-> Null, next |-> 0]
Good(val, next) == [ok |-> TRUE, val |-> val, next |-> next]
IsP(toks, i, s) == i <= Len(toks) /\ toks[i] = P(s)

\* The decoder: ParseValue(toks, i) reads one value starting at token i.
RECURSIVE ParseValue(_, _)
RECURSIVE ParseItems(_, _, _)
RECURSIVE ParseMembers(_, _, _)
ParseValue(toks, i) ==
    IF i > Len(toks) THEN Bad
    ELSE LET tk == toks[i] IN
         CASE tk.k = "num" -> Good(Num(tk.n), i + 1)
           [] tk.k = "str" -> Good(Str(tk.s), i + 1)
           [] tk.k = "lit" ->
                Good(IF tk.s = "null" THEN Null ELSE Bool(tk.s = "true"), i + 1)
           [] tk = P("[") ->
                IF IsP(toks, i + 1, "]") THEN Good(Arr(<<>>), i + 2)
                ELSE ParseItems(toks, i + 1, <<>>)
           [] tk = P("{") ->
                IF IsP(toks, i + 1, "}") THEN Good(Obj(<<>>), i + 2)
                ELSE ParseMembers(toks, i + 1, <<>>)
           [] OTHER -> Bad
ParseItems(toks, i, acc) ==
    LET r == ParseValue(toks, i) IN
    IF ~r.ok THEN Bad
    ELSE IF IsP(toks, r.next, ",")
         THEN ParseItems(toks, r.next + 1, Append(acc, r.val))
         ELSE IF IsP(toks, r.next, "]")
              THEN Good(Arr(Append(acc, r.val)), r.next + 1)
              ELSE Bad
ParseMembers(toks, i, acc) ==
    IF ~(i + 1 <= Len(toks) /\ toks[i].k = "str" /\ toks[i + 1] = P(":"))
    THEN Bad
    ELSE LET r == ParseValue(toks, i + 2) IN
         IF ~r.ok THEN Bad
         ELSE LET acc2 == DictSet(acc, toks[i].s, r.val) IN
              IF IsP(toks, r.next, ",")
              THEN ParseMembers(toks, r.next + 1, acc2)
              ELSE IF IsP(toks, r.next, "}")
                   THEN Good(Obj(acc2), r.next + 1)
                   ELSE Bad

\* json.load of a whole file: one value and nothing after it.
Load(toks) ==
    LET r == ParseValue(toks, 1) IN
    IF r.ok /\ r.next = Len(toks) + 1
    THEN [err |-> "none", val |-> r.val]
    ELSE [err |-> "JSONDecodeError", val |-> Null]

(***************************************************************************)
(* The atlas documents the runs start from.                                *)
(***************************************************************************)
Box(pairs) == Obj(pairs)
Kinds == {"ok1", "ok2", "nox", "noy", "noframe", "xstr", "ybool", "xnull",
          "yarr", "xobj", "framearr", "entrystr"}

\* One frame entry of each shape lines 9 to 11 tell apart.
Entry(kind) ==
    CASE kind = "ok1" ->
           Obj(<< <<"frame", Box(<< <<"x", Num(0)>>, <<"y", Num(1)>>,
                                    <<"w", Num(16)>>, <<"h", Num(16)>> >>)>>,
                  <<"rotated", Bool(FALSE)>> >>)
      [] kind = "ok2" ->
           Obj(<< <<"x", Num(7)>>,
                  <<"frame", Box(<< <<"w", Num(8)>>, <<"y", Num(0 - 4)>>,
                                    <<"x", Num(3)>> >>)>>,
                  <<"pivot", Obj(<< <<"y", Str("0.5")>> >>)>> >>)
      [] kind = "nox" ->
           Obj(<< <<"frame", Box(<< <<"y", Num(1)>>, <<"w", Num(4)>> >>)>> >>)
      [] kind = "noy" ->
           Obj(<< <<"frame", Box(<< <<"x", Num(1)>> >>)>> >>)
      [] kind = "noframe" ->
           Obj(<< <<"rotated", Bool(TRUE)>> >>)
      [] kind = "xstr" ->
           Obj(<< <<"frame", Box(<< <<"x", Str("3")>>, <<"y", Num(1)>> >>)>> >>)
      [] kind = "ybool" ->
           Obj(<< <<"frame", Box(<< <<"x", Num(5)>>, <<"y", Bool(TRUE)>> >>)>> >>)
      [] kind = "xnull" ->
           Obj(<< <<"frame", Box(<< <<"x", Null>>, <<"y", Num(1)>> >>)>> >>)
      [] kind = "yarr" ->
           Obj(<< <<"frame", Box(<< <<"x", Num(1)>>,
                                    <<"y", Arr(<<Num(1)>>)>> >>)>> >>)
      [] kind = "xobj" ->
           Obj(<< <<"frame", Box(<< <<"x", Obj(<<>>)>>, <<"y", Num(1)>> >>)>> >>)
      [] kind = "framearr" ->
           Obj(<< <<"frame", Arr(<<Num(1), Num(2)>>)>> >>)
      [] kind = "entrystr" -> Str("frame")

\* Frame ids, in an order that is not the sorted one.
FrameId(n) == CASE n = 1 -> "b.png" [] n = 2 -> "a.png" [] n = 3 -> "c.png"
                [] OTHER -> "d.png"

KindSeqs == UNION {[1..n -> Kinds] : n \in 0..MaxFrames}

FramesOf(ks) == Obj([n \in 1..Len(ks) |-> <<FrameId(n), Entry(ks[n])>>])

\* An atlas with keys beside "frames", before and after it.
AtlasDoc(ks) ==
    Obj(<< <<"meta", Obj(<< <<"x", Num(1)>>, <<"app", Str("tp")>> >>)>>,
           <<"frames", FramesOf(ks)>>,
           <<"version", Str("1.0")>> >>)

Shapes == {"plain", "noframes", "framesarr", "framesnull", "toparr", "topnum"}
ShapeDoc(shape) ==
    CASE shape = "plain" -> Obj(<< <<"frames", FramesOf(<<"ok1">>)>> >>)
      [] shape = "noframes" -> Obj(<< <<"meta", Obj(<<>>)>> >>)
      [] shape = "framesarr" -> Obj(<< <<"frames", Arr(<<Entry("ok1")>>)>> >>)
      [] shape = "framesnull" -> Obj(<< <<"frames", Null>> >>)
      [] shape = "toparr" -> Arr(<<Entry("ok1")>>)
      [] shape = "topnum" -> Num(3)

\* Texts that are not one JSON value.
Malformed ==
    LET good == Dump(AtlasDoc(<<"ok1">>)) IN
    { <<>>,
      SubSeq(good, 1, Len(good) - 1),
      good \o <<P("}")>>,
      <<P("{"), Tok("num", "", 1), P(":"), Tok("num", "", 1), P("}")>>,
      <<P("{"), Tok("str", "frames", 0), P(":"), P("}")>> }

File(content) == [exists |-> TRUE, content |-> content]
Absent == [exists |-> FALSE, content |-> <<>>]

InputFiles ==
    {Absent}
    \cup {File(Dump(AtlasDoc(ks))) : ks \in KindSeqs}
    \cup {File(Dump(ShapeDoc(s))) : s \in Shapes}
    \cup {File(m) : m \in Malformed}

\* What collectables_padded.json may hold before the run.
OutputFiles == {Absent, File(<<Tok("str", "stale", 0)>>)}

(***************************************************************************)
(* The state of one execution of the script.                               *)
(***************************************************************************)
VARIABLES
    fs,        \* the two files of the working directory, by path
    fs0,       \* fs when the current execution started
    orig,      \* collectables.json when the first execution started
    run,       \* the number of the current execution
    pc,        \* the statement the execution is at
    err,       \* the exception that ended the execution, or "none"
    data,      \* the variable data of line 6
    i,         \* how many values of data["frames"] the loop has taken
    stdout,    \* the lines printed by the current execution
    inOpen,    \* collectables.json is open
    outOpen,   \* collectables_padded.json is open
    inOpens    \* how many times the execution opened collectables.json

vars == <<fs, fs0, orig, run, pc, err, data, i, stdout, inOpen, outOpen, inOpens>>

Paths == {IN_PATH, OUT_PATH}

Init ==
    /\ \E fin \in InputFiles, fout \in OutputFiles :
          /\ fs = [p \in Paths |-> IF p = IN_PATH THEN fin ELSE fout]
          /\ orig = fin
    /\ fs0 = fs
    /\ run = 1
    /\ pc = "open_in"
    /\ err = "none"
    /\ data = Null
    /\ i = 0
    /\ stdout = <<>>
    /\ inOpen = FALSE
    /\ outOpen = FALSE
    /\ inOpens = 0

\* An uncaught exception ends the execution.
Raise(e) == pc' = "failed" /\ err' = e

\* data["frames"] as a sequence of <<id, entry>> pairs.
Frames(d) == GetKey(d.v, "frames").v
\* The value the loop variable frame_data is bound to in iteration n.
FrameData(d, n) == Frames(d)[n][2]

\* Mutant of StoreFrameField: the key is removed and inserted again, as
\* frame[key] = frame.pop(key) + OFFSET would, so it moves to the end.
StoreFrameFieldReinsert(d, n, key, val) ==
    LET ent == Frames(d)[n]
        frame == GetKey(ent[2].v, "frame")
        rest == SelectSeq(frame.v, LAMBDA kv : kv[1] # key)
        newframe == Obj(Append(rest, <<key, val>>))
        newent == Obj(DictSet(ent[2].v, "frame", newframe))
        newframes == Obj([Frames(d) EXCEPT ![n] = <<ent[1], newent>>])
    IN Obj(DictSet(d.v, "frames", newframes))

\* frame[key] = val, where frame is the dict frame_data["frame"] of iteration
\* n: the dict is changed in place, so data sees the change.
StoreFrameField(d, n, key, val) ==
    LET ent == Frames(d)[n]
        frame == GetKey(ent[2].v, "frame")
        newframe == Obj(DictSet(frame.v, key, val))
        newent == Obj(DictSet(ent[2].v, "frame", newframe))
        newframes == Obj([Frames(d) EXCEPT ![n] = <<ent[1], newent>>])
    IN Obj(DictSet(d.v, "frames", newframes))

\* Mutant of OpenForWrite: mode "a", which keeps what the file holds.
OpenForAppend(file) == File(file.content)

\* open(path, "w"): the file is created, or cut to nothing.
OpenForWrite(file) == File(<<>>)

\* Mutant of OpenInput: a missing file is taken for an atlas without
\* frames instead of raising.
OpenInputOrEmpty ==
    /\ pc = "open_in"
    /\ IF fs[IN_PATH].exists
       THEN /\ pc' = "load"
            /\ inOpen' = TRUE
            /\ inOpens' = inOpens + 1
            /\ data' = data
       ELSE /\ pc' = "for_init"
            /\ data' = Obj(<< <<"frames", Obj(<<>>)>> >>)
            /\ UNCHANGED <<inOpen, inOpens>>
    /\ UNCHANGED <<fs, fs0, orig, run, err, i, stdout, outOpen>>

\* Line 5: open("collectables.json", "r").
OpenInput ==
    /\ pc = "open_in"
    /\ IF fs[IN_PATH].exists
       THEN /\ pc' = "load"
            /\ inOpen' = TRUE
            /\ inOpens' = inOpens + 1
            /\ err' = err
       ELSE /\ Raise("FileNotFoundError")
            /\ UNCHANGED <<inOpen, inOpens>>
    /\ UNCHANGED <<fs, fs0, orig, run, data, i, stdout, outOpen>>

\* Line 6: data = json.load(f); leaving the with block closes the file,
\* whether json.load raised or not.
LoadInput ==
    /\ pc = "load"
    /\ inOpen' = FALSE
    /\ LET r == Load(fs[IN_PATH].content) IN
       IF r.err = "none"
       THEN data' = r.val /\ pc' = "for_init" /\ err' = err
       ELSE data' = data /\ Raise(r.err)
    /\ UNCHANGED <<fs, fs0, orig, run, i, stdout, outOpen, inOpens>>

\* Line 8, the iterable: data["frames"].values().
ForInit ==
    /\ pc = "for_init"
    /\ LET frames == Subscript(data, "frames") IN
       IF frames.err # "none" THEN Raise(frames.err)
       ELSE LET vals == Values(frames.val) IN
            IF vals.err # "none" THEN Raise(vals.err)
            ELSE pc' = "for_next" /\ err' = err
    /\ UNCHANGED <<fs, fs0, orig, run, data, i, stdout, inOpen, outOpen, inOpens>>

\* Line 8, the next value: the body runs once more, or the loop ends.
ForNext ==
    /\ pc = "for_next"
    /\ IF i < Len(Frames(data))
       THEN i' = i + 1 /\ pc' = "bind_frame"
       ELSE i' = i /\ pc' = "open_out"
    /\ UNCHANGED <<fs, fs0, orig, run, err, data, stdout, inOpen, outOpen, inOpens>>

\* Line 9: frame = frame_data["frame"].
BindFrame ==
    /\ pc = "bind_frame"
    /\ LET frame == Subscript(FrameData(data, i), "frame") IN
       IF frame.err # "none" THEN Raise(frame.err)
       ELSE pc' = "shift_x" /\ err' = err
    /\ UNCHANGED <<fs, fs0, orig, run, data, i, stdout, inOpen, outOpen, inOpens>>

\* frame[key] += OFFSET: read the item, add, store the item.
ShiftField(key, next) ==
    LET frame == Subscript(FrameData(data, i), "frame").val
        old == Subscript(frame, key)
    IN IF old.err # "none" THEN data' = data /\ Raise(old.err)
       ELSE LET sum == IAdd(old.val) IN
            IF sum.err # "none" THEN data' = data /\ Raise(sum.err)
            ELSE /\ data' = StoreFrameField(data, i, key, sum.val)
                 /\ pc' = next
                 /\ err' = err

\* Line 10: frame["x"] += OFFSET.
ShiftX ==
    /\ pc = "shift_x"
    /\ ShiftField("x", "shift_y")
    /\ UNCHANGED <<fs, fs0, orig, run, i, stdout, inOpen, outOpen, inOpens>>

\* Mutant of ShiftY: line 11 copied from line 10 with the key left as "x".
ShiftYCopyPaste ==
    /\ pc = "shift_y"
    /\ ShiftField("x", "for_next")
    /\ UNCHANGED <<fs, fs0, orig, run, i, stdout, inOpen, outOpen, inOpens>>

\* Line 11: frame["y"] += OFFSET.
ShiftY ==
    /\ pc = "shift_y"
    /\ ShiftField("y", "for_next")
    /\ UNCHANGED <<fs, fs0, orig, run, i, stdout, inOpen, outOpen, inOpens>>

\* Line 13: open("collectables_padded.json", "w").
OpenOutput ==
    /\ pc = "open_out"
    /\ fs' = [fs EXCEPT ![OUT_PATH] = OpenForWrite(@)]
    /\ outOpen' = TRUE
    /\ pc' = "dump"
    /\ UNCHANGED <<fs0, orig, run, err, data, i, stdout, inOpen, inOpens>>

\* Line 13 when the file system refuses the open (no permission, a
\* read-only volume): PermissionError, and nothing is touched.
OpenOutputFail ==
    /\ pc = "open_out"
    /\ Raise("PermissionError")
    /\ UNCHANGED <<fs, fs0, orig, run, data, i, stdout, inOpen, outOpen, inOpens>>

\* Line 14: json.dump writes the document piece by piece; one more piece
\* reaches the file.
WriteChunk ==
    /\ pc = "dump"
    /\ LET text == Dump(data)
           done == Len(fs[OUT_PATH].content)
       IN /\ done < Len(text)
          /\ fs' = [fs EXCEPT ![OUT_PATH].content = Append(@, text[done + 1])]
    /\ UNCHANGED <<fs0, orig, run, pc, err, data, i, stdout, inOpen, outOpen, inOpens>>

\* Mutant of WriteFail: the error is caught and the script goes on to
\* line 16.
WriteFailSwallowed ==
    /\ pc = "dump"
    /\ Len(fs[OUT_PATH].content) < Len(Dump(data))
    /\ outOpen' = FALSE
    /\ pc' = "print"
    /\ UNCHANGED <<fs, fs0, orig, run, err, data, i, stdout, inOpen, inOpens>>

\* Line 14 when a write fails before the whole document reached the file
\* (the volume is full, the device fails): OSError; leaving the with block
\* closes the file with what it holds.
WriteFail ==
    /\ pc = "dump"
    /\ Len(fs[OUT_PATH].content) < Len(Dump(data))
    /\ outOpen' = FALSE
    /\ Raise("OSError")
    /\ UNCHANGED <<fs, fs0, orig, run, data, i, stdout, inOpen, inOpens>>

\* Line 14 done: leaving the with block of line 13 closes the file.
CloseOutput ==
    /\ pc = "dump"
    /\ Len(fs[OUT_PATH].content) = Len(Dump(data))
    /\ outOpen' = FALSE
    /\ pc' = "print"
    /\ UNCHANGED <<fs, fs0, orig, run, err, data, i, stdout, inOpen, inOpens>>

\* Mutant of PrintMessage: the line is printed only when some frame was
\* shifted.
PrintIfShifted ==
    /\ pc = "print"
    /\ stdout' = IF i > 0 THEN Append(stdout, MESSAGE) ELSE stdout
    /\ pc' = "done"
    /\ UNCHANGED <<fs, fs0, orig, run, err, data, i, inOpen, outOpen, inOpens>>

\* Line 16: print(...).
PrintMessage ==
    /\ pc = "print"
    /\ stdout' = Append(stdout, MESSAGE)
    /\ pc' = "done"
    /\ UNCHANGED <<fs, fs0, orig, run, err, data, i, inOpen, outOpen, inOpens>>

\* The script is executed again on its own output: the file it wrote is
\* copied over collectables.json and a new process starts at line 5.
Rerun ==
    /\ pc = "done"
    /\ run < MaxRuns
    /\ fs' = [fs EXCEPT ![IN_PATH] = fs[OUT_PATH]]
    /\ fs0' = fs'
    /\ run' = run + 1
    /\ pc' = "open_in"
    /\ data' = Null
    /\ i' = 0
    /\ stdout' = <<>>
    /\ inOpens' = 0
    /\ UNCHANGED <<orig, err, inOpen, outOpen>>

Next ==
    \/ OpenInput
    \/ LoadInput
    \/ ForInit
    \/ ForNext
    \/ BindFrame
    \/ ShiftX
    \/ ShiftY
    \/ OpenOutput
    \/ OpenOutputFail
    \/ WriteChunk
    \/ WriteFail
    \/ CloseOutput
    \/ PrintMessage
    \/ Rerun

Spec == Init /\ [][Next]_vars

(***************************************************************************)
(* What the properties speak of.                                           *)
(***************************************************************************)
\* The document the current execution was given, the document the first
\* execution was given, and the document collectables_padded.json holds.
InDoc == Load(fs0[IN_PATH].content)
OrigDoc == Load(orig.content)
OutDoc == Load(fs[OUT_PATH].content)

IsDict(val) == val.t = "obj"
HasFrames(d) == IsDict(d) /\ HasKey(d.v, "frames") /\ IsDict(GetKey(d.v, "frames"))
NumFrames(d) == Len(Frames(d))
Ids(d) == {Frames(d)[n][1] : n \in 1..NumFrames(d)}
HasBox(e) == IsDict(e) /\ HasKey(e.v, "frame") /\ IsDict(GetKey(e.v, "frame"))
BoxOf(e) == GetKey(e.v, "frame").v
EntryOf(d, id) == GetKey(Frames(d), id)
Coord(d, id, key) == GetKey(BoxOf(EntryOf(d, id)), key)

\* Every entry has a frame box with x and y, each of a type in types.
BoxesOfTypes(d, types) ==
    /\ HasFrames(d)
    /\ \A n \in 1..NumFrames(d) :
          LET e == FrameData(d, n) IN
          /\ HasBox(e)
          /\ \A key \in {"x", "y"} :
                HasKey(BoxOf(e), key) /\ GetKey(BoxOf(e), key).t \in types

\* A valid Atlas Document: x and y are numbers in every entry.
ValidAtlas(d) == BoxesOfTypes(d, {"num"})

\* Some entry lacks the frame box, or its box lacks x or y.
LacksField(d) ==
    /\ HasFrames(d)
    /\ \E n \in 1..NumFrames(d) :
          LET e == FrameData(d, n) IN
          /\ IsDict(e)
          /\ \/ ~HasKey(e.v, "frame")
             \/ HasBox(e) /\ (~HasKey(BoxOf(e), "x") \/ ~HasKey(BoxOf(e), "y"))

\* "frames" is missing, or some entry has an x or y of a type in types.
WrongType(d, types) ==
    /\ IsDict(d)
    /\ \/ ~HasKey(d.v, "frames")
       \/ /\ HasFrames(d)
          /\ \E n \in 1..NumFrames(d) : \E key \in {"x", "y"} :
                LET e == FrameData(d, n) IN
                /\ HasBox(e)
                /\ HasKey(BoxOf(e), key)
                /\ GetKey(BoxOf(e), key).t \in types

\* The output has the ids of document d and every x and y of d plus delta.
ShiftedBy(d, out, delta) ==
    /\ HasFrames(out)
    /\ Ids(out) = Ids(d)
    /\ NumFrames(out) = NumFrames(d)
    /\ \A id \in Ids(d) : \A key \in {"x", "y"} :
          /\ HasBox(EntryOf(out, id))
          /\ HasKey(BoxOf(EntryOf(out, id)), key)
          /\ Coord(out, id, key) = Num(Coord(d, id, key).v + delta)

\* pairs with the value of key k, where there is one, replaced by Null.
Blanked(pairs, k) ==
    [n \in 1..Len(pairs) |-> IF pairs[n][1] = k THEN <<k, Null>> ELSE pairs[n]]
\* pairs with the value of key k replaced by F(value).
Mapped(pairs, k, F(_)) ==
    [n \in 1..Len(pairs) |-> IF pairs[n][1] = k THEN <<k, F(pairs[n][2])>>
                             ELSE pairs[n]]
BlankBox(box) == IF IsDict(box) THEN Obj(Blanked(Blanked(box.v, "x"), "y")) ELSE box
BlankEntry(e) == IF IsDict(e) THEN Obj(Mapped(e.v, "frame", BlankBox)) ELSE e
BlankFrames(frames) ==
    IF IsDict(frames)
    THEN Obj([n \in 1..Len(frames.v) |->
                 <<frames.v[n][1], BlankEntry(frames.v[n][2])>>])
    ELSE frames
\* Document d with frame.x and frame.y of every entry blanked: everything
\* else, and the order of the keys at every level, is kept.
BlankXY(d) == IF IsDict(d) THEN Obj(Mapped(d.v, "frames", BlankFrames)) ELSE d

BeforeWrite == {"open_in", "load", "for_init", "for_next", "bind_frame",
                "shift_x", "shift_y", "open_out"}

(***************************************************************************)
(* Properties.                                                             *)
(***************************************************************************)

StructurePreserved ==
    pc = "done"
        => /\ InDoc.err = "none"
           /\ OutDoc.err = "none"
           /\ BlankXY(OutDoc.val) = BlankXY(InDoc.val)
StructurePreservedWitness ==
    /\ pc = "done"
    /\ InDoc.err = "none"
    /\ NumFrames(InDoc.val) >= 2
    /\ \E n \in 1..NumFrames(InDoc.val) :
          LET e == FrameData(InDoc.val, n) IN
          /\ e.v[1][1] # "frame"
          /\ BoxOf(e)[1][1] = "w"
    /\ InDoc.val.v[1][1] = "meta"
    /\ BlankXY(OutDoc.val) = BlankXY(InDoc.val)
    /\ OutDoc.val # InDoc.val

\* C4: when "frames" is empty nothing in the script raises; the run that
\* the file system lets finish writes the document as it was read, with
\* "frames" still empty, and prints the confirmation.
EmptyFramesSucceed ==
    LET in == InDoc IN
    (in.err = "none" /\ HasFrames(in.val) /\ NumFrames(in.val) = 0)
        => /\ err \in {"none", "PermissionError", "OSError"}
           /\ (err # "none" => pc = "failed" /\ i = 0 /\ data = in.val)
           /\ (pc \in {"print", "done"}
                  => OutDoc.err = "none" /\ OutDoc.val = in.val)
           /\ (pc = "done" => stdout = <<MESSAGE>>)
EmptyFramesWitness ==
    /\ pc = "done"
    /\ InDoc.err = "none"
    /\ HasFrames(InDoc.val)
    /\ NumFrames(InDoc.val) = 0
    /\ Len(InDoc.val.v) > 1
    /\ OutDoc.val = InDoc.val
    /\ stdout = <<MESSAGE>>

\* C5: when collectables.json does not exist the run ends with
\* FileNotFoundError at line 5: collectables_padded.json is never opened,
\* created or changed, and nothing is printed.
MissingInputAborts ==
    ~fs0[IN_PATH].exists
        => /\ pc \in {"open_in", "failed"}
           /\ (pc = "failed" => err = "FileNotFoundError")
           /\ (pc # "failed" => ENABLED Next)
           /\ fs = fs0
           /\ ~outOpen
           /\ stdout = <<>>
MissingInputWitness ==
    /\ ~fs0[IN_PATH].exists
    /\ pc = "failed"
    /\ err = "FileNotFoundError"
    /\ fs[OUT_PATH].exists
    /\ fs[OUT_PATH] = fs0[OUT_PATH]

\* The entries the loop took before iteration n that were well formed are
\* shifted in data.
EarlierShifted(d, n) ==
    \A m \in 1..(n - 1) :
       LET e == FrameData(d, m) IN
       (HasBox(e) /\ \A key \in {"x", "y"} :
            HasKey(BoxOf(e), key) /\ GetKey(BoxOf(e), key).t = "num")
           => \A key \in {"x", "y"} :
                 GetKey(BoxOf(FrameData(data, m)), key)
                     = Num(GetKey(BoxOf(e), key).v + 2)

\* C6: when an entry lacks x, y or the frame box, wherever it sits, the run
\* ends with an error before line 13: the output file is never opened,
\* created or changed and nothing is printed, although the well-formed
\* entries taken earlier are already shifted in memory.
MalformedEntryAborts ==
    LET in == InDoc IN
    (in.err = "none" /\ LacksField(in.val))
        => /\ pc \in (BeforeWrite \ {"open_out"}) \cup {"failed"}
           /\ (pc = "failed" => err \in {"KeyError", "TypeError"})
           /\ fs = fs0
           /\ ~outOpen
           /\ stdout = <<>>
           /\ (pc = "failed" => EarlierShifted(in.val, i))
MalformedEntryWitness ==
    /\ InDoc.err = "none"
    /\ LacksField(InDoc.val)
    /\ pc = "failed"
    /\ err = "KeyError"
    /\ i = 2
    /\ ValidAtlas(Obj(<< <<"frames", Obj(<<Frames(InDoc.val)[1]>>)>> >>))
    /\ data # InDoc.val
    /\ fs[OUT_PATH].exists
    /\ fs = fs0

\* The run ends with an error before line 13 and leaves no trace.
AbortsBeforeWrite ==
    /\ pc \in (BeforeWrite \ {"open_out"}) \cup {"failed"}
    /\ (pc = "failed" => err \in {"KeyError", "TypeError"})
    /\ fs = fs0
    /\ ~outOpen
    /\ stdout = <<>>

\* C7 as stated: a missing "frames", or an x or y that is a string, a
\* boolean, null, an array or an object, aborts the run: such a run never
\* ends with the output file written and the confirmation printed.
EveryWrongTypeAborts ==
    LET in == InDoc IN
    (in.err = "none" /\ WrongType(in.val, {"str", "bool", "null", "arr", "obj"}))
        => ~(pc = "done" /\ fs[OUT_PATH].exists /\ stdout = <<MESSAGE>>)

\* C7 amended: a missing "frames", or an x or y that is a string, null, an
\* array or an object, aborts the run with no output file written and no
\* confirmation; a boolean x or y does not: it counts as 1 or 0, and the
\* successful run writes that number plus 2.
WrongTypeAbortsExceptBool ==
    LET in == InDoc IN
    /\ (in.err = "none" /\ WrongType(in.val, {"str", "null", "arr", "obj"}))
           => AbortsBeforeWrite
    /\ (pc = "done" /\ in.err = "none" /\ BoxesOfTypes(in.val, {"num", "bool"}))
           => /\ OutDoc.err = "none"
              /\ Ids(OutDoc.val) = Ids(in.val)
              /\ \A id \in Ids(in.val) : \A key \in {"x", "y"} :
                    LET old == Coord(in.val, id, key) IN
                    Coord(OutDoc.val, id, key)
                        = Num((IF old.t = "num" THEN old.v
                               ELSE IF old.v THEN 1 ELSE 0) + 2)
WrongTypeWitness ==
    /\ InDoc.err = "none"
    /\ WrongType(InDoc.val, {"str", "null", "arr", "obj"})
    /\ WrongType(InDoc.val, {"bool"})
    /\ pc = "failed"
    /\ err = "TypeError"
    /\ i = 2
    /\ fs[OUT_PATH].exists

\* C8: the confirmation is printed at most once, only after the output
\* file holds the whole document and is closed, and never in a run that
\* failed.
ConfirmationAfterWrite ==
    /\ Len(stdout) <= 1
    /\ (stdout # <<>>
           => /\ pc = "done"
              /\ err = "none"
              /\ ~outOpen
              /\ fs[OUT_PATH].exists
              /\ fs[OUT_PATH].content = Dump(data))
    /\ (pc = "failed" => stdout = <<>> /\ err # "none")
    /\ (pc = "done" => stdout = <<MESSAGE>>)
ConfirmationWitness ==
    /\ pc = "done"
    /\ stdout = <<MESSAGE>>
    /\ ~outOpen
    /\ NumFrames(data) >= 1
    /\ fs[OUT_PATH].content = Dump(data)

IsProperPrefix(s, t) == Len(s) < Len(t) /\ s = SubSeq(t, 1, Len(s))

\* C9: a write that fails part-way ends the run with the output file in
\* place, cut when it was opened and holding only the first part of the
\* document, which is not a whole JSON text; whatever the file held before
\* is gone.
PartialWriteRemains ==
    (pc = "failed" /\ err = "OSError")
        => /\ fs[OUT_PATH].exists
           /\ ~outOpen
           /\ IsProperPrefix(fs[OUT_PATH].content, Dump(data))
           /\ OutDoc.err = "JSONDecodeError"
           /\ stdout = <<>>
PartialWriteWitness ==
    /\ pc = "failed"
    /\ err = "OSError"
    /\ fs0[OUT_PATH].exists
    /\ fs0[OUT_PATH].content # <<>>
    /\ Len(fs[OUT_PATH].content) > 3
    /\ IsProperPrefix(fs[OUT_PATH].content, Dump(data))
    /\ fs[OUT_PATH] # fs0[OUT_PATH]

\* C10: collectables.json is never written: it holds at every moment what
\* it held when the run started; it is opened once and is closed before
\* the loop starts; collectables_padded.json is opened or changed only
\* after the loop has taken every frame.
SourceNeverUpdated ==
    /\ fs[IN_PATH] = fs0[IN_PATH]
    /\ inOpens <= 1
    /\ (inOpen => pc = "load")
    /\ (pc \notin {"open_in", "failed"} => inOpens = 1)
    /\ ((outOpen \/ fs[OUT_PATH] # fs0[OUT_PATH])
           => /\ pc \in {"dump", "print", "done", "failed"}
              /\ HasFrames(data)
              /\ i = NumFrames(data))
SourceNeverUpdatedWitness ==
    /\ pc = "done"
    /\ fs[IN_PATH] = fs0[IN_PATH]
    /\ fs[OUT_PATH] # fs0[OUT_PATH]
    /\ fs[OUT_PATH].content # fs[IN_PATH].content
    /\ i = NumFrames(data)
    /\ i >= 2

====
